---- MODULE Spec2Model ----
(***************************************************************************)
(* Model of src/adapter/forum_memory.py: MemoryItem (to_dict / from_dict)  *)
(* and ForumMemory (bounded diary journal persisted to one JSON file).     *)
(*                                                                         *)
(* The file system holds one storage location (a directory and the file    *)
(* forum_memory.json in it).  A journal object is constructed on it, used  *)
(* through add_diary / clear / get_diaries, and may be constructed again   *)
(* (a fresh journal on the same storage location).                         *)
(***************************************************************************)
EXTENDS Integers, Sequences, FiniteSets, TLC

(***************************** bounds **************************************)
\* largest capacity passed to the constructor
MaxCap == 2
\* calls of add_diary and clear, and constructions after the first one
MaxCalls == 3
\* largest limit passed to get_diaries
MaxLimit == 1

(************************ Python and JSON values ***************************)
\* A Python value: its type and an abstract payload.
PyStr(s) == [py |-> "str", v |-> s]
PyInt(s) == [py |-> "int", v |-> s]
PyList(s) == [py |-> "list", v |-> s]
PyTuple(s) == [py |-> "tuple", v |-> s]
PySet(s) == [py |-> "set", v |-> s]
\* a key that is not in a dict
PyAbsent == [py |-> "absent", v |-> ""]

\* A JSON value as it stands in the file text.
JStr(s) == [js |-> "string", v |-> s]
JNum(s) == [js |-> "number", v |-> s]
JArr(s) == [js |-> "array", v |-> s]
JAbsent == [js |-> "absent", v |-> ""]
\* what the encoder cannot write (TypeError: not JSON serializable)
JFail == [js |-> "fail", v |-> ""]

\* json.dump of one Python value: str -> string, int -> number, list and
\* tuple -> array; a set is not serializable.
JsonEncode(p) ==
  CASE p.py = "str" -> JStr(p.v)
    [] p.py = "int" -> JNum(p.v)
    [] p.py = "list" -> JArr(p.v)
    [] p.py = "tuple" -> JArr(p.v)
    [] p.py = "absent" -> JAbsent
    [] OTHER -> JFail

\* json.load of one JSON value: string -> str, number -> int, array -> list.
JsonDecode(j) ==
  CASE j.js = "string" -> PyStr(j.v)
    [] j.js = "number" -> PyInt(j.v)
    [] j.js = "array" -> PyList(j.v)
    [] OTHER -> PyAbsent

\* A dict (metadata) is a set of <<key, value>> pairs; NoDict is a missing
\* "metadata" key of a record.
NoDict == {<<"", PyAbsent>>}
JNoDict == {<<"", JAbsent>>}
EncodeDict(d) == IF d = NoDict THEN JNoDict ELSE {<<kv[1], JsonEncode(kv[2])>> : kv \in d}
DecodeDict(d) == IF d = JNoDict THEN NoDict ELSE {<<kv[1], JsonDecode(kv[2])>> : kv \in d}
DictSerializable(d) == \A kv \in d : JsonEncode(kv[2]) # JFail

(****************************** datetime ***********************************)
\* A datetime: the part strftime("%m-%d %H:%M") shows (min) and the part
\* below minute precision (sec).
DateTime(m, s) == [min |-> m, sec |-> s]
DigitChars == <<"0", "1", "2", "3">>
DigitChar(n) == DigitChars[n + 1]
IsDigit(c) == \E i \in 1..Len(DigitChars) : DigitChars[i] = c
DigitVal(c) == (CHOOSE i \in 1..Len(DigitChars) : DigitChars[i] = c) - 1

\* datetime.isoformat(): the text of a datetime, a sequence of characters.
isoformat(dt) == <<DigitChar(dt.min), ":", DigitChar(dt.sec)>>
\* what datetime.fromisoformat() accepts
IsIsoText(p) ==
  /\ p.py = "str"
  /\ Len(p.v) = 3
  /\ IsDigit(p.v[1]) /\ p.v[2] = ":" /\ IsDigit(p.v[3])
\* mutant: parses to minute precision only
fromisoformat_DropsSeconds(p) == DateTime(DigitVal(p.v[1]), 0)

\* datetime.fromisoformat() of an accepted text
fromisoformat(p) == DateTime(DigitVal(p.v[1]), DigitVal(p.v[3]))

\* datetime.now() at the n-th call: the clock advances one second per call,
\* two seconds to the minute
Now(n) == DateTime(n \div 2, n % 2)

(****************************** MemoryItem *********************************)
MemoryItem(c, t, md) == [content |-> c, timestamp |-> t, metadata |-> md]

\* MemoryItem.to_dict: the dict handed to json.dump.
to_dict(m) ==
  [memory_type |-> PyStr("diary"),
   content |-> m.content,
   timestamp |-> PyStr(isoformat(m.timestamp)),
   metadata |-> m.metadata]

\* from_dict raises KeyError (content or timestamp missing), ValueError or
\* TypeError (timestamp is not ISO text).
FromDictRaises(d) ==
  \/ d.content.py = "absent"
  \/ d.timestamp.py = "absent"
  \/ ~IsIsoText(d.timestamp)

\* MemoryItem.from_dict, where it does not raise; data.get("metadata", {}).
from_dict(d) ==
  MemoryItem(d.content,
             fromisoformat(d.timestamp),
             IF d.metadata = NoDict THEN {} ELSE d.metadata)

(************************** the backing file *******************************)
\* One record of the file's JSON array.
JsonRecord(tag, c, t, md) ==
  [memory_type |-> tag, content |-> c, timestamp |-> t, metadata |-> md]

\* json.dump of one dict of to_dict's shape
EncodeRecord(d) ==
  JsonRecord(JsonEncode(d.memory_type), JsonEncode(d.content),
             JsonEncode(d.timestamp), EncodeDict(d.metadata))
\* json.load of one record: a Python dict
DecodeRecord(r) ==
  [memory_type |-> JsonDecode(r.memory_type),
   content |-> JsonDecode(r.content),
   timestamp |-> JsonDecode(r.timestamp),
   metadata |-> DecodeDict(r.metadata)]

RecordSerializable(d) ==
  /\ JsonEncode(d.content) # JFail
  /\ DictSerializable(d.metadata)

\* The states of forum_memory.json.
FileMissing == [kind |-> "missing", recs |-> <<>>]
\* exists, open() for reading raises OSError
FileUnreadable == [kind |-> "unreadable", recs |-> <<>>]
\* exists, not valid JSON (also what an interrupted write leaves)
FileGarbage == [kind |-> "garbage", recs |-> <<>>]
\* valid JSON that is not a sequence of records
FileScalar == [kind |-> "scalar", recs |-> <<>>]
\* a JSON array of records
FileArray(rs) == [kind |-> "array", recs |-> rs]

\* json.load of the whole file, where it parses to a list: a list of dicts
json_load(f) == [i \in 1..Len(f.recs) |-> DecodeRecord(f.recs[i])]

\* Records a file may hold before the first construction.
RecDiaryNew == JsonRecord(JStr("diary"), JStr("p"), JStr(isoformat(DateTime(1, 0))), {})
\* an older timestamp and no "metadata" key
RecDiaryOld == JsonRecord(JStr("diary"), JStr("q"), JStr(isoformat(DateTime(0, 1))), JNoDict)
\* another kind of record, without the fields of a diary
RecOther == JsonRecord(JStr("other"), JStr("o"), JAbsent, JNoDict)
\* a record without a "memory_type" key
RecUntagged == JsonRecord(JAbsent, JStr("u"), JStr(isoformat(DateTime(0, 1))), {})
RecNoContent == JsonRecord(JStr("diary"), JAbsent, JStr(isoformat(DateTime(1, 0))), {})
RecNoTimestamp == JsonRecord(JStr("diary"), JStr("r"), JAbsent, {})
RecBadTimestamp == JsonRecord(JStr("diary"), JStr("s"), JStr(<<"x">>), {})

\* diary records among records of other kinds, the newer diary first
FileMixed == FileArray(<<RecDiaryNew, RecOther, RecUntagged, RecDiaryOld>>)

FileThreeDiaries == FileArray(<<RecDiaryOld, RecDiaryNew, RecDiaryOld>>)
\* a diary record that from_dict rejects, after or between records it accepts
FileNoContent == FileArray(<<RecDiaryNew, RecNoContent>>)
FileNoTimestamp == FileArray(<<RecDiaryNew, RecNoTimestamp>>)
FileBadTimestamp == FileArray(<<RecDiaryOld, RecBadTimestamp, RecDiaryNew>>)

InitFiles ==
  {FileMissing, FileUnreadable, FileGarbage, FileScalar,
   FileMixed, FileThreeDiaries, FileNoContent, FileNoTimestamp, FileBadTimestamp}

(****************************** ForumMemory ********************************)
\* Python's seq[start:] for any integer start
SliceFrom(seq, start) ==
  LET n == Len(seq)
      from == IF start < 0
              THEN (IF n + start < 0 THEN 0 ELSE n + start)
              ELSE (IF start > n THEN n ELSE start)
  IN SubSeq(seq, from + 1, n)

\* Python's seq[:stop] for any integer stop
SliceTo(seq, stop) ==
  LET n == Len(seq)
      to == IF stop < 0
            THEN (IF n + stop < 0 THEN 0 ELSE n + stop)
            ELSE (IF stop > n THEN n ELSE stop)
  IN SubSeq(seq, 1, to)

\* Python's seq[::-1]
Reverse(seq) == [i \in 1..Len(seq) |-> seq[Len(seq) + 1 - i]]

\* mutant: keeps the oldest items
Trim_KeepsOldest(mems, cap) == IF Len(mems) > cap THEN SliceTo(mems, cap) ELSE mems

\* add_diary, "Trim if exceeds limit"
Trim(mems, cap) == IF Len(mems) > cap THEN SliceFrom(mems, 0 - cap) ELSE mems

\* mutant: takes a record without a tag for a diary
IsDiary_OrUntagged(d) == d.memory_type \in {PyStr("diary"), PyAbsent}

\* _load, the filter d.get("memory_type") == "diary"
IsDiary(d) == d.memory_type = PyStr("diary")

\* mutant: skips the records from_dict rejects and keeps the others
Load_SkipsRejected(mems, f) ==
  IF f.kind = "missing" THEN mems
  ELSE IF f.kind # "array" THEN <<>>
  ELSE LET kept == SelectSeq(json_load(f), LAMBDA d : IsDiary(d) /\ ~FromDictRaises(d))
       IN [i \in 1..Len(kept) |-> from_dict(kept[i])]

\* _load: the new value of self._memories
Load(mems, f) ==
  IF f.kind = "missing" THEN mems
  ELSE IF f.kind # "array" THEN <<>>
  ELSE LET kept == SelectSeq(json_load(f), IsDiary)
       IN IF \E i \in 1..Len(kept) : FromDictRaises(kept[i])
          THEN <<>>
          ELSE [i \in 1..Len(kept) |-> from_dict(kept[i])]

\* Faults of the file system during _save: none, open() raises, a write
\* (or the flush at close) raises.
IoFaults == {"none", "open", "write"}

\* _save: how it ends.  The exception never leaves _save.
SaveStatus(mems, io) ==
  IF io = "open" THEN "open_failed"
  ELSE IF io = "write" \/ \E i \in 1..Len(mems) : ~RecordSerializable(to_dict(mems[i]))
       THEN "write_failed"
       ELSE "ok"

\* mutant: rewrites the diary records and keeps the file's other records
Save_KeepsOtherKinds(mems, f, io) ==
  LET data == [i \in 1..Len(mems) |-> to_dict(mems[i])]
      others == SelectSeq(f.recs, LAMBDA r : r.memory_type # JStr("diary"))
  IN CASE SaveStatus(mems, io) = "open_failed" -> f
       [] SaveStatus(mems, io) = "write_failed" -> FileGarbage
       [] OTHER -> FileArray(others \o [i \in 1..Len(data) |-> EncodeRecord(data[i])])

\* mutant: an empty journal is not written, the file is left as it was
Save_SkipsEmpty(mems, f, io) ==
  LET data == [i \in 1..Len(mems) |-> to_dict(mems[i])]
  IN CASE SaveStatus(mems, io) = "open_failed" -> f
       [] SaveStatus(mems, io) = "write_failed" -> FileGarbage
       [] mems = <<>> -> f
       [] OTHER -> FileArray([i \in 1..Len(data) |-> EncodeRecord(data[i])])

\* mutant: the file is opened for appending, so text written over an existing
\* file follows the old text and the whole is no JSON document
Save_AppendMode(mems, f, io) ==
  LET data == [i \in 1..Len(mems) |-> to_dict(mems[i])]
  IN CASE SaveStatus(mems, io) = "open_failed" -> f
       [] SaveStatus(mems, io) = "write_failed" -> FileGarbage
       [] f # FileMissing -> FileGarbage
       [] OTHER -> FileArray([i \in 1..Len(data) |-> EncodeRecord(data[i])])

\* mutant: an incremental save, the newest item's record is added to the
\* records the file holds
Save_OnlyNewest(mems, f, io) ==
  LET data == [i \in 1..Len(mems) |-> to_dict(mems[i])]
      held == IF f.kind = "array" THEN f.recs ELSE <<>>
  IN CASE SaveStatus(mems, io) = "open_failed" -> f
       [] SaveStatus(mems, io) = "write_failed" -> FileGarbage
       [] mems = <<>> -> FileArray(<<>>)
       [] OTHER -> FileArray(Append(held, EncodeRecord(data[Len(data)])))

\* _save: the file afterwards.  open(path, "w") truncates the file, then
\* json.dump writes the text piece by piece.
Save(mems, f, io) ==
  LET data == [i \in 1..Len(mems) |-> to_dict(mems[i])]
  IN CASE SaveStatus(mems, io) = "open_failed" -> f
       [] SaveStatus(mems, io) = "write_failed" -> FileGarbage
       [] OTHER -> FileArray([i \in 1..Len(data) |-> EncodeRecord(data[i])])

\* get_diaries: limit is <<>> (None) or <<k>>; "if limit:" is false for None and 0.
get_diaries(mems, limit) ==
  LET items == Reverse(mems)
  IN IF limit # <<>> /\ limit[1] # 0 THEN SliceTo(items, limit[1]) ELSE items

\* get_summary's default limit
DefaultLimit == 10

\* strftime("%m-%d %H:%M"): the timestamp to the minute, seconds dropped
strftime(dt) == <<DigitChar(dt.min)>>

\* f"{item.content}": the text of a str, the decimal text of an int
Format(c) == c.v

\* One line of the summary text: the message for an empty journal, the
\* header, or "[time_str] content" for an item.
SummaryLine(kind, time_str, content) ==
  [kind |-> kind, time_str |-> time_str, content |-> content]
NoDiaryLine == SummaryLine("no_diary", <<>>, "")
HeaderLine == SummaryLine("header", <<>>, "")

\* get_summary(limit): the lines that "\n".join puts together
get_summary(mems, limit) ==
  LET items == get_diaries(mems, <<limit>>)
  IN IF items = <<>>
     THEN <<NoDiaryLine>>
     ELSE <<HeaderLine>> \o
          [i \in 1..Len(items) |->
             SummaryLine("entry", strftime(items[i].timestamp), Format(items[i].content))]

\* mutant: get_diaries without a limit hands out self._memories itself
get_diaries_object_Alias(limit) == IF limit = <<>> THEN "self._memories" ELSE "new"

\* The list object get_diaries returns: the slices [::-1] and [:limit] each
\* build a new list, so it is never the list self._memories itself.
get_diaries_object(limit) == "new"

\* What the caller may do to the list it was given: list.pop(0), list.reverse()
ListEdits == {"pop", "reverse"}
EditList(list, edit) == IF edit = "pop" THEN Tail(list) ELSE Reverse(list)

\* __len__
len(mems) == Len(mems)

\* content[:50] in the debug line of add_diary raises TypeError for these
Subscriptable(c) == c.py \in {"str", "list", "tuple"}

(******************************* state *************************************)
VARIABLES
  env,          \* how the owner constructs the journal, and whether StarTools works
  dir,          \* the storage directory: "present", "absent" or "blocked" (not creatable)
  file,         \* forum_memory.json
  alive,        \* a journal object exists
  max_items,    \* self._max_items
  memories,     \* self._memories
  storage_path, \* self._storage_path
  calls,        \* calls made so far (drives the clock)
  loaded,       \* history: self._memories as __init__ left it
  appended,     \* history: the items add_diary appended to this journal object
  cleared,      \* history: clear was called on this journal object
  history,      \* history: the items __init__ loaded, or none after a clear, then the items appended since
  saved,        \* history: self._memories at the latest save that succeeded
  durable,      \* history: what a load saw in the file after the latest save that succeeded
  last_save,    \* history: how the latest _save on the storage location ended
  last          \* history: the latest call, its arguments, result and the state before it

vars == <<env, dir, file, alive, max_items, memories, storage_path, calls,
          loaded, appended, cleared, history, saved, durable, last_save, last>>

Call(op, outcome, save, args, ret) ==
  [op |-> op, outcome |-> outcome, save |-> save, args |-> args, ret |-> ret,
   pre_memories |-> memories, pre_file |-> file, pre_alive |-> alive]

\* The owner's constructor arguments and the state of StarTools.
Owner(sd, st, cap) == [storage_dir |-> sd, star_tools |-> st, max_items |-> cap]

\* __init__, "Determine storage path"
ResolvePath(e) ==
  IF e.storage_dir # "none" THEN "storage_dir/forum_memory.json"
  ELSE IF e.star_tools = "ok" THEN "data_dir/forum_memory.json"
  ELSE "plugin_data/astrbot-plugin-astrbook/forum_memory.json"

\* The deployments the model starts from, as <<env, dir, file>>:
\*  - a given storage_dir that exists, any file in it, a positive capacity;
\*  - every way of resolving the path, the directory absent or not creatable;
\*  - a capacity that is not positive.
Deployments ==
  {<<Owner("given", "ok", cap), "present", f>> : cap \in 1..MaxCap, f \in InitFiles}
  \cup {<<Owner(e[1], e[2], 1), d, FileMissing>> :
          e \in {<<"given", "ok">>, <<"none", "ok">>, <<"none", "fails">>},
          d \in {"absent", "blocked"}}
  \cup {<<Owner("given", "ok", cap), "present", f>> :
          cap \in {0 - 1, 0}, f \in {FileMissing, FileMixed}}

\* add_diary's arguments: content, and metadata as <<>> (None) or <<dict>>
AddInputs ==
  {<<PyStr("a"), <<>>>>,
   <<PyStr("c"), <<{<<"k", PyTuple("x")>>}>>>>,
   <<PyStr("d"), <<{<<"k", PySet("x")>>}>>>>,
   <<PyInt("5"), <<{<<"k", PyList("x")>>}>>>>}

\* get_diaries' argument: <<>> (None) or <<k>>
Limits == {<<>>} \cup {<<k>> : k \in 0..MaxLimit}

\* "metadata or {}"
OrEmpty(md) == IF md = <<>> \/ md[1] = {} THEN {} ELSE md[1]

Init ==
  /\ \E d \in Deployments : env = d[1] /\ dir = d[2] /\ file = d[3]
  /\ alive = FALSE
  /\ max_items = 0
  /\ memories = <<>>
  /\ storage_path = ""
  /\ calls = 0
  /\ loaded = <<>>
  /\ appended = <<>>
  /\ cleared = FALSE
  /\ history = <<>>
  /\ saved = <<>>
  /\ durable = Load(<<>>, file)
  /\ last_save = "none"
  /\ last = [op |-> "none", outcome |-> "none", save |-> "none", args |-> <<>>,
             ret |-> <<>>, pre_memories |-> <<>>, pre_file |-> file, pre_alive |-> FALSE]

\* ForumMemory.__init__(max_items, storage_dir): os.makedirs is outside any
\* try, so a directory that cannot be created ends the constructor with an
\* OSError; otherwise _load runs on the empty self._memories.  The first
\* construction starts the run; a later one is a fresh journal on the same
\* storage location.
Construct ==
  /\ last.op = "none" \/ calls < MaxCalls
  /\ calls' = IF last.op = "none" THEN calls ELSE calls + 1
  /\ max_items' = env.max_items
  /\ storage_path' = ResolvePath(env)
  /\ appended' = <<>>
  /\ cleared' = FALSE
  /\ IF dir = "blocked"
     THEN /\ alive' = FALSE
          /\ memories' = <<>>
          /\ dir' = dir
          /\ last' = Call("construct", "raised", "none", <<>>, <<>>)
     ELSE /\ alive' = TRUE
          /\ memories' = Load(<<>>, file)
          /\ dir' = "present"
          /\ last' = Call("construct", "returned", "none", <<>>, <<>>)
  /\ loaded' = memories'
  /\ history' = memories'
  /\ UNCHANGED <<env, file, saved, durable, last_save>>

\* add_diary(content, metadata) with file-system fault io
add_diary(content, metadata, io) ==
  LET item == MemoryItem(content, Now(calls), OrEmpty(metadata))
      kept == Trim(Append(memories, item), max_items)
      status == SaveStatus(kept, io)
      written == Save(kept, file, io)
  IN /\ alive
     /\ calls < MaxCalls
     /\ calls' = calls + 1
     /\ memories' = kept
     /\ file' = written
     /\ last_save' = status
     /\ saved' = IF status = "ok" THEN kept ELSE saved
     /\ durable' = IF status = "ok" THEN Load(<<>>, written) ELSE durable
     /\ appended' = Append(appended, item)
     /\ history' = Append(history, item)
     /\ last' = Call("add_diary",
                     IF Subscriptable(content) THEN "returned" ELSE "raised",
                     status, <<item>>, <<>>)
     /\ UNCHANGED <<env, dir, alive, max_items, storage_path, loaded, cleared>>

\* clear() with file-system fault io
clear(io) ==
  LET status == SaveStatus(<<>>, io)
      written == Save(<<>>, file, io)
  IN /\ alive
     /\ calls < MaxCalls
     /\ calls' = calls + 1
     /\ memories' = <<>>
     /\ file' = written
     /\ last_save' = status
     /\ saved' = IF status = "ok" THEN <<>> ELSE saved
     /\ durable' = IF status = "ok" THEN Load(<<>>, written) ELSE durable
     /\ cleared' = TRUE
     /\ history' = <<>>
     /\ last' = Call("clear", "returned", status, <<>>, <<>>)
     /\ UNCHANGED <<env, dir, alive, max_items, storage_path, loaded, appended>>

\* The calls that read the journal.  A query made right after another query
\* leaves the state the same query leaves when made first, so one is enough.
Queries == {"get_diaries", "get_summary", "len"}

\* get_diaries(limit); the result is kept in last.ret
GetDiaries(limit) ==
  /\ alive
  /\ last.op \notin Queries
  /\ last' = Call("get_diaries", "returned", "none", limit, get_diaries(memories, limit))
  /\ UNCHANGED <<env, dir, file, alive, max_items, memories, storage_path, calls,
                 loaded, appended, cleared, history, saved, durable, last_save>>

\* get_summary(limit); the result is kept in last.ret
GetSummary(limit) ==
  /\ alive
  /\ last.op \notin Queries
  /\ last' = Call("get_summary", "returned", "none", <<limit>>, get_summary(memories, limit))
  /\ UNCHANGED <<env, dir, file, alive, max_items, memories, storage_path, calls,
                 loaded, appended, cleared, history, saved, durable, last_save>>

\* len(journal); the result is kept in last.ret
Size ==
  /\ alive
  /\ last.op \notin Queries
  /\ last' = Call("len", "returned", "none", <<>>, <<len(memories)>>)
  /\ UNCHANGED <<env, dir, file, alive, max_items, memories, storage_path, calls,
                 loaded, appended, cleared, history, saved, durable, last_save>>

\* The caller edits the list the latest get_diaries(limit) returned.  The edit
\* reaches self._memories only if that list is the same object.
EditResult(edit) ==
  /\ alive
  /\ calls < MaxCalls
  /\ last.op = "get_diaries"
  /\ last.ret # <<>>
  /\ calls' = calls + 1
  /\ memories' = IF get_diaries_object(last.args) = "self._memories"
                  THEN EditList(memories, edit)
                  ELSE memories
  /\ last' = Call("edit_result", "returned", "none", <<edit>>, EditList(last.ret, edit))
  /\ UNCHANGED <<env, dir, file, alive, max_items, storage_path,
                 loaded, appended, cleared, history, saved, durable, last_save>>

\* get_summary's argument: left out (the default) or k
SummaryLimits == {DefaultLimit} \cup 0..MaxLimit

DoAddDiary == \E inp \in AddInputs, io \in IoFaults : add_diary(inp[1], inp[2], io)
DoClear == \E io \in IoFaults : clear(io)
DoGetDiaries == \E limit \in Limits : GetDiaries(limit)

DoGetSummary == \E limit \in SummaryLimits : GetSummary(limit)

\* add_diary and clear on a file system without faults (a set in the metadata
\* still makes json.dump fail)
DoAddDiaryNoFault == \E inp \in AddInputs : add_diary(inp[1], inp[2], "none")
DoClearNoFault == clear("none")
DoEditResult == \E edit \in ListEdits : EditResult(edit)

Next == Construct \/ DoAddDiary \/ DoClear \/ DoGetDiaries

Spec == Init /\ [][Next]_vars

\* _save() called on the journal as it stands, with file-system fault io
CallSave(io) ==
  LET status == SaveStatus(memories, io)
      written == Save(memories, file, io)
  IN /\ alive
     /\ calls < MaxCalls
     /\ calls' = calls + 1
     /\ file' = written
     /\ last_save' = status
     /\ saved' = IF status = "ok" THEN memories ELSE saved
     /\ durable' = IF status = "ok" THEN Load(<<>>, written) ELSE durable
     /\ last' = Call("_save", "returned", status, <<>>, <<>>)
     /\ UNCHANGED <<env, dir, alive, max_items, memories, storage_path,
                    loaded, appended, cleared, history>>

\* _load() called on the journal as it stands (a reload): with no file it
\* returns at once, otherwise self._memories is what the file gives
CallLoad ==
  /\ alive
  /\ calls < MaxCalls
  /\ calls' = calls + 1
  /\ memories' = Load(memories, file)
  /\ IF file = FileMissing
     THEN UNCHANGED <<loaded, appended, cleared, history>>
     ELSE /\ loaded' = memories'
          /\ appended' = <<>>
          /\ cleared' = FALSE
          /\ history' = memories'
  /\ last' = Call("_load", "returned", "none", <<>>, <<>>)
  /\ UNCHANGED <<env, dir, file, alive, max_items, storage_path,
                 saved, durable, last_save>>

DoCallSave == \E io \in IoFaults : CallSave(io)

\* The journal with _save and _load called directly as well, as the owner
\* or a subclass can.
NextInternal ==
  \/ Construct
  \/ DoAddDiary
  \/ DoClear
  \/ DoCallSave
  \/ CallLoad

SpecInternal == Init /\ [][NextInternal]_vars

\* The journal with all of its queries, from every deployment, its file system
\* working after construction.
NextQueries ==
  \/ Construct
  \/ DoAddDiaryNoFault
  \/ DoClearNoFault
  \/ DoGetDiaries
  \/ DoGetSummary
  \/ Size
  \/ DoEditResult

SpecQueries == Init /\ [][NextQueries]_vars

(******************************** claims ***********************************)
FailedSaves == {"open_failed", "write_failed"}

\* the newest n items of a history of appends, newest first
NewestFirst(hist, n) == [i \in 1..n |-> hist[Len(hist) + 1 - i]]

\* the journal started empty, was never cleared and took more appends than it holds
OverfilledFromEmpty ==
  /\ alive
  /\ max_items >= 1
  /\ loaded = <<>>
  /\ ~cleared
  /\ Len(appended) > max_items

\* C1: from an empty journal of capacity max_items >= 1, after more than
\* max_items appends and no clear, the size is max_items and get_diaries()
\* without a limit is the last max_items appended items, newest first.
C1_KeepsNewestMaxItems ==
  OverfilledFromEmpty =>
    /\ len(memories) = max_items
    /\ get_diaries(memories, <<>>) = NewestFirst(appended, max_items)
    /\ (last.op = "get_diaries" /\ last.args = <<>>
          => last.ret = NewestFirst(appended, max_items))

C1_Witness ==
  /\ OverfilledFromEmpty
  /\ last.op = "get_diaries" /\ last.args = <<>>
  /\ Len(last.ret) = max_items
  /\ last.ret[1] = appended[Len(appended)]

\* C2: a journal of positive capacity never holds more than max_items
\* items, after construction, append and clear alike.
C2_SizeWithinCapacity ==
  (alive /\ max_items >= 1) => Len(memories) <= max_items

\* C3: after add_diary or clear whose save succeeded, the file is a JSON
\* array with one diary-tagged record per item of self._memories, oldest
\* first, and nothing else.
C3_FileMirrorsMemories ==
  (last.op \in {"add_diary", "clear"} /\ last.save = "ok") =>
    /\ file.kind = "array"
    /\ Len(file.recs) = Len(memories)
    /\ \A i \in 1..Len(memories) :
         /\ file.recs[i].memory_type = JStr("diary")
         /\ file.recs[i].content = JsonEncode(memories[i].content)
         /\ file.recs[i].timestamp = JStr(isoformat(memories[i].timestamp))
         /\ file.recs[i].metadata = EncodeDict(memories[i].metadata)

\* an append that trimmed, saved over a file that held other-kind records
C3_Witness ==
  /\ last.op = "add_diary" /\ last.save = "ok"
  /\ last.pre_file = FileMixed
  /\ Len(last.pre_memories) = 2 /\ Len(memories) = 2
  /\ file.kind = "array" /\ Len(file.recs) = 2

\* a fresh journal was constructed on the file a successful save wrote
FreshAfterSave ==
  /\ last.op = "construct" /\ last.outcome = "returned"
  /\ max_items >= 1
  /\ last_save = "ok"

JsonImage(d) == {<<kv[1], IF kv[2].py = "tuple" THEN PyList(kv[2].v) ELSE kv[2]>> : kv \in d}

C5_SaveFaultNeverRaises ==
  (last.op \in {"add_diary", "clear"} /\ last.save \in FailedSaves /\ max_items >= 1) =>
    /\ last.outcome = "returned"
    /\ last.op = "clear" => memories = <<>>
    /\ last.op = "add_diary" =>
         memories = Trim(Append(last.pre_memories, last.args[1]), max_items)

\* a diary-tagged record of the file that from_dict rejects
RejectedRecord(r) ==
  /\ r.memory_type = JStr("diary")
  /\ \/ r.content = JAbsent
     \/ r.timestamp = JAbsent
     \/ r.timestamp.js # "string"
     \/ ~IsIsoText(PyStr(r.timestamp.v))

\* the file exists and cannot be loaded
BadFile(f) ==
  \/ f.kind \in {"unreadable", "garbage", "scalar"}
  \/ f.kind = "array" /\ \E i \in 1..Len(f.recs) : RejectedRecord(f.recs[i])

\* C6: constructing on a file that is unreadable, not JSON, not a sequence
\* of records, or that holds a diary record that does not deserialize, ends
\* without an exception and with no items at all.
C6_BadFileLoadsEmpty ==
  (last.op = "construct" /\ BadFile(last.pre_file)) =>
    /\ last.outcome = "returned"
    /\ memories = <<>>

\* the rejected record stands between two records that deserialize
C6_Witness ==
  /\ last.op = "construct"
  /\ last.pre_file = FileBadTimestamp
  /\ memories = <<>>

\* C7: no state of the storage makes the constructor fail.
C7_ConstructionNeverFails ==
  (last.op = "construct" /\ max_items >= 1) => (last.outcome = "returned" /\ alive)

\* C8: an add_diary that raises has changed neither self._memories nor the file.
C8_AppendAllOrNothing ==
  (last.op = "add_diary" /\ last.outcome = "raised" /\ max_items >= 1) =>
    /\ memories = last.pre_memories
    /\ file = last.pre_file

\* C9: a failed save leaves the file stale, not damaged: when a save that
\* wrote items succeeded and the latest save failed, a fresh journal loads
\* what the successful save left in the file.
C9_FailedSaveLeavesFileStale ==
  (last.op = "construct" /\ last.outcome = "returned" /\ max_items >= 1
     /\ last_save \in FailedSaves /\ saved # <<>>)
    => memories = durable

\* every diary-tagged record of the file deserializes
WellFormed(f) ==
  /\ f.kind = "array"
  /\ \A i \in 1..Len(f.recs) : ~RejectedRecord(f.recs[i])

DiaryIndexes(f) == {i \in 1..Len(f.recs) : f.recs[i].memory_type = JStr("diary")}
\* the position in the file of its k-th diary-tagged record
KthDiary(f, k) ==
  CHOOSE i \in DiaryIndexes(f) : Cardinality({j \in DiaryIndexes(f) : j <= i}) = k

\* C10: constructing on a well-formed file yields one item per diary-tagged
\* record, in file order, whatever the timestamps; records of another kind
\* or without a tag are skipped.
C10_LoadKeepsDiariesInFileOrder ==
  (last.op = "construct" /\ WellFormed(last.pre_file)) =>
    /\ last.outcome = "returned"
    /\ Len(memories) = Cardinality(DiaryIndexes(last.pre_file))
    /\ \A k \in 1..Len(memories) :
         LET r == last.pre_file.recs[KthDiary(last.pre_file, k)]
         IN /\ JsonEncode(memories[k].content) = r.content
            /\ JStr(isoformat(memories[k].timestamp)) = r.timestamp

\* the mixed file: two diaries kept, the later timestamp first
C10_Witness ==
  /\ last.op = "construct"
  /\ last.pre_file = FileMixed
  /\ Len(memories) = 2
  /\ memories[1].timestamp.min > memories[2].timestamp.min

\* C11 (as claimed): after clear() returns, on any journal, size() is 0 and a
\* fresh journal constructed on the same storage location has 0 entries.
C11_ClearEmptiesMemoryAndDisk ==
  (last.op = "clear" /\ max_items >= 1)
    => len(memories) = 0 /\ len(Load(<<>>, file)) = 0

\* C11 (amended): after clear() returns, size() is 0; a fresh journal
\* constructed on the same storage location has 0 entries if the save made by
\* that clear succeeded (a save that failed may leave the old entries on disk).
C11_ClearEmptiesDiskWhenSaved ==
  last.op = "clear"
    => /\ len(memories) = 0
       /\ last.save = "ok" => len(Load(<<>>, file)) = 0

\* clear() on a journal that held entries, over a file that held entries, saved
C11_Witness ==
  /\ last.op = "clear"
  /\ last.save = "ok"
  /\ max_items >= 1
  /\ last.pre_memories # <<>>
  /\ Load(<<>>, last.pre_file) # <<>>
  /\ len(memories) = 0

Min(a, b) == IF a <= b THEN a ELSE b

\* C12: get_diaries(k) with an integer k >= 0 returns exactly the first
\* min(k, size()) entries of the reversed append order (none for k = 0), and
\* get_diaries() without a limit returns all size() entries newest-first.
C12_LimitCapsResult ==
  (last.op = "get_diaries" /\ max_items >= 1)
    => last.ret = NewestFirst(memories,
                              IF last.args = <<>> THEN len(memories)
                              ELSE Min(last.args[1], len(memories)))

\* C13: get_summary(limit) returns the fixed empty-journal message exactly when
\* the journal has no entries; otherwise it returns one header line followed by
\* exactly min(limit, size()) entry lines, the i-th of them carrying the
\* timestamp and the content of the i-th newest entry.
C13_SummaryShape ==
  (last.op = "get_summary" /\ max_items >= 1)
    => LET n == Min(last.args[1], len(memories))
           newest == NewestFirst(memories, len(memories))
       IN IF len(memories) = 0
          THEN last.ret = <<NoDiaryLine>>
          ELSE /\ Len(last.ret) = 1 + n
               /\ last.ret[1] = HeaderLine
               /\ \A i \in 1..n :
                    /\ last.ret[1 + i].kind = "entry"
                    /\ last.ret[1 + i].time_str = strftime(newest[i].timestamp)
                    /\ last.ret[1 + i].content = Format(newest[i].content)

\* C14: constructing a journal with max_items <= 0 is rejected with an error
\* that reaches the caller, and no journal of zero or negative capacity is
\* ever in use.
C14_NonPositiveCapacityRejected ==
  /\ (last.op = "construct" /\ env.max_items <= 0) => last.outcome = "raised"
  /\ alive => max_items >= 1

\* C15: two consecutive saves that both succeed, with no append or clear
\* between them, leave the file as the first of them left it.
C15_SaveIsIdempotent ==
  [][(last'.op = "_save" /\ calls' = calls + 1 /\ last_save = "ok" /\ last_save' = "ok")
       => file' = file]_vars

\* _save ran and succeeded right after add_diary had saved the same items
C15_Witness ==
  /\ last.op = "_save" /\ last.save = "ok"
  /\ max_items >= 1
  /\ appended # <<>> /\ ~cleared
  /\ memories = saved /\ Len(memories) = 2
  /\ file = last.pre_file
  /\ file.kind = "array" /\ Len(file.recs) = 2

\* C17: whenever _load runs, in the constructor or as a reload of a journal
\* that already holds items, and the file does not exist, self._memories is
\* empty afterwards and no error is raised.
C17_LoadWithoutFileGivesEmpty ==
  (last.op \in {"construct", "_load"} /\ last.pre_file = FileMissing
     /\ dir # "blocked" /\ max_items >= 1)
    => /\ last.outcome = "returned"
       /\ len(memories) = 0

\* s is the last Len(s) items of t, in t's order
IsSuffix(s, t) ==
  /\ Len(s) <= Len(t)
  /\ \A i \in 1..Len(s) : s[i] = t[Len(t) - Len(s) + i]

\* C16: across add_diary, clear and the queries, self._memories is always a
\* contiguous suffix of the items loaded at construction (none after a clear)
\* followed by the items appended since, each with the content and timestamp
\* it was loaded or appended with; items leave only from the front, when
\* add_diary trims, or all at once by clear.
C16_MemoriesAreSuffixOfHistory ==
  /\ IsSuffix(memories, history)
  /\ last.op = "add_diary" =>
       /\ IsSuffix(memories, Append(last.pre_memories, last.args[1]))
       /\ max_items >= 1 => memories[Len(memories)] = last.args[1]
  /\ last.op = "clear" => memories = <<>>
  /\ last.op \in Queries => memories = last.pre_memories

\* a journal that loaded items, was cleared, and then trimmed an appended item
C16_Witness ==
  /\ alive /\ max_items >= 1
  /\ loaded # <<>> /\ cleared
  /\ last.op = "add_diary"
  /\ Len(history) = 2 /\ Len(memories) = 1
  /\ memories[1] = history[2]

RecordsOf(mems) == [i \in 1..Len(mems) |-> EncodeRecord(to_dict(mems[i]))]

\* C19: after add_diary or clear calls whose saves failed, the first later
\* add_diary or clear whose save succeeds leaves the file equal to the whole
\* of self._memories, the retained items whose own save had failed included.
C19_NextGoodSaveRepairsFile ==
  [][(/\ last'.op \in {"add_diary", "clear"}
      /\ calls' = calls + 1
      /\ last_save \in FailedSaves
      /\ last_save' = "ok")
       => /\ file' = FileArray(RecordsOf(memories'))
          /\ \A i \in 1..Len(memories) :
               (\E j \in 1..Len(memories') : memories'[j] = memories[i])
                 => \E k \in 1..Len(file'.recs) :
                      file'.recs[k] = EncodeRecord(to_dict(memories[i]))]_vars

\* a journal that started empty kept an item whose save had failed, and the
\* save of the next add_diary wrote both
C19_Witness ==
  /\ last.op = "add_diary" /\ last.save = "ok"
  /\ max_items >= 2
  /\ loaded = <<>> /\ ~cleared
  /\ Len(appended) = 2 /\ memories = appended
  /\ last.pre_file.kind \in {"missing", "garbage"}
  /\ file.kind = "array" /\ Len(file.recs) = 2

====
